---- MODULE Spec2Model ----
(***************************************************************************)
(* The VGA text-mode Writer of src/src/vga_buffer.rs: one cursor counter   *)
(* (char_numbers), one style (color_code) and the character grid           *)
(* (buffer).  Row and column are derived from the counter by / and % with  *)
(* BUFFER_WIDTH; new_line rounds the counter up to the next row, guards    *)
(* it against usize overflow and scrolls the grid.                         *)
(*                                                                         *)
(* The grid geometry and the width of usize are scaled down so that every  *)
(* corner (last row, last column, the overflow guard) is reached by short  *)
(* runs; the source has BUFFER_WIDTH = 80, BUFFER_HEIGHT = 25 and a 64-bit *)
(* usize.  All arithmetic on char_numbers is done modulo 2^UsizeBits and   *)
(* every wrap is recorded.  As in the source, usize::MAX is several pages  *)
(* large and (usize::MAX - page) modulo the page falls on a row above the  *)
(* last two (2^64 - 1 - 2000 is 1615 modulo 2000: row 20 of 25).           *)
(***************************************************************************)
EXTENDS Integers, Sequences, FiniteSets, TLC

VARIABLES
    char_numbers,   \* Writer.char_numbers: usize
    color_code,     \* Writer.color_code: ColorCode
    buffer,         \* Writer.buffer.chars: rows of cells
    last,           \* what the last operation did (its inputs and effects)
    nscrolls,       \* scrolls since construction, saturating at MaxCount
    fed,            \* the strings passed to write_string so far, in order
    locked,         \* WRITER (spin::Mutex): the flow holding it, or "none"
    interrupts,     \* the CPU's interrupt flag: TRUE when interrupts are enabled
    running,        \* the flow the CPU executes: "main" or "irq"
    flow,           \* per flow: position in _print, saved flag, panicking
    nprints         \* calls of _print started so far

cpu_vars == <<locked, interrupts, running, flow, nprints>>

vars == <<char_numbers, color_code, buffer, last, nscrolls, fed,
          locked, interrupts, running, flow, nprints>>

(***************************************************************************)
(* Bounds of the model.                                                    *)
(***************************************************************************)
BUFFER_WIDTH == 4
BUFFER_HEIGHT == 3
UsizeBits == 6
MaxCount == 2
MaxCalls == 4
MaxPrints == 3

(***************************************************************************)
(* Program constants.                                                      *)
(***************************************************************************)
NEWLINE == 10
SPACE == 32
PLACEHOLDER == 254
ASCII_LO == 32
ASCII_HI == 126
Black == 0
Green == 2

usize_MAX == 2^UsizeBits - 1

PAGE == BUFFER_WIDTH * BUFFER_HEIGHT

\* ColorCode::new: (background as u8) << 4 | (foreground as u8)
ColorCode_new(foreground, background) == ((background * 16) % 256) + foreground

\* ScreenChar { ascii_character, color_code }
ScreenChar(byte, code) == [ascii_character |-> byte, color_code |-> code]

\* Buffer.chars is declared [[_; BUFFER_WIDTH]; BUFFER_WIDTH]: as many rows
\* as columns.  Only the first BUFFER_HEIGHT rows are on the screen.
BufferRows == 0 .. (BUFFER_WIDTH - 1)
BufferCols == 0 .. (BUFFER_WIDTH - 1)

\* usize arithmetic: the value kept is the result modulo 2^UsizeBits (a
\* release build); a debug build panics instead.  Either way the operation
\* is recorded as wrapped.
Wrap(x) == x % (usize_MAX + 1)

Overflows(x) == x < 0 \/ x > usize_MAX

NoIndex == 0 - 1

\* The Writer together with the effects of the operation in progress:
\* scrolls done, whether the overflow guard fired, whether usize arithmetic
\* wrapped, whether an index was out of the array (a panic), the rows and
\* columns of every cell read or written, the cell the last non-newline byte
\* was stored in and what that cell held before, and the bytes passed to
\* write_byte.
Machine(cn, code, buf) ==
    [char_numbers |-> cn, color_code |-> code, buffer |-> buf,
     scrolls |-> 0, guard |-> FALSE, wrapped |-> FALSE, panicked |-> FALSE,
     rows |-> {}, cols |-> {}, row |-> NoIndex, col |-> NoIndex,
     old |-> NoIndex, calls |-> <<>>]

\* An index into chars[row][col]: Rust panics when it is outside the array.
InBuffer(row, col) == row \in BufferRows /\ col \in BufferCols

\* self.buffer.chars[row][col].read()
ReadCell(m, row, col) ==
    IF InBuffer(row, col) THEN m.buffer[row][col] ELSE ScreenChar(SPACE, m.color_code)

\* the effects of one access to chars[row][col], read or write
Touch(m, row, col) ==
    [m EXCEPT !.rows = @ \cup {row}, !.cols = @ \cup {col},
              !.panicked = @ \/ ~InBuffer(row, col)]

\* self.buffer.chars[row][col].write(cell); nothing runs after a panic
WriteCell(m, row, col, cell) ==
    IF m.panicked THEN m
    ELSE IF InBuffer(row, col)
         THEN [Touch(m, row, col) EXCEPT !.buffer[row][col] = cell]
         ELSE Touch(m, row, col)

\* for col in 0..BUFFER_WIDTH { chars[row][col].write(blank) }
RECURSIVE clear_cols(_, _, _)
clear_cols(m, row, col) ==
    IF col >= BUFFER_WIDTH THEN m
    ELSE clear_cols(WriteCell(m, row, col, ScreenChar(SPACE, m.color_code)),
                    row, col + 1)

\* variant: the first column of the row is left as it is
clear_row_from_one(m, row) == clear_cols(m, row, 1)

clear_row(m, row) == clear_cols(m, row, 0)

\* for row in 1..BUFFER_HEIGHT { for col in 0..BUFFER_WIDTH {
\*     chars[row - 1][col].write(chars[row][col].read()) } }
RECURSIVE move_up(_, _, _)
move_up(m, row, col) ==
    IF row >= BUFFER_HEIGHT THEN m
    ELSE IF col >= BUFFER_WIDTH THEN move_up(m, row + 1, 0)
    ELSE IF m.panicked THEN m
    ELSE LET character == ReadCell(m, row, col)
             m1 == Touch(m, row, col)
         IN move_up(WriteCell(m1, row - 1, col, character), row, col + 1)

\* variant: the rows are moved up but the last row is not cleared
scroll_no_clear(m) ==
    [move_up(m, 1, 0) EXCEPT !.scrolls = @ + 1]

\* the body of `if self.char_numbers / BUFFER_WIDTH >= BUFFER_HEIGHT - 1`
scroll(m) ==
    LET m1 == move_up(m, 1, 0)
        m2 == clear_row(m1, BUFFER_HEIGHT - 1)
    IN [m2 EXCEPT !.scrolls = @ + 1]

\* variant: the guard compares with usize::MAX itself
guard_fires_late(cn) == cn >= usize_MAX

\* the overflow guard at the head of new_line
guard_fires(cn) == cn >= usize_MAX - BUFFER_WIDTH * BUFFER_HEIGHT

\* variant: the guard reduces modulo one row instead of one page
overflow_guard_row(cn) ==
    IF guard_fires(cn) THEN cn % BUFFER_WIDTH ELSE cn

overflow_guard(cn) ==
    IF guard_fires(cn) THEN cn % (BUFFER_WIDTH * BUFFER_HEIGHT) ELSE cn

\* variant: new_line scrolls one row earlier
needs_scroll_early(cn) == cn \div BUFFER_WIDTH >= BUFFER_HEIGHT - 2

\* the condition under which new_line scrolls
needs_scroll(cn) == cn \div BUFFER_WIDTH >= BUFFER_HEIGHT - 1

\* variant: a cursor already at column 0 is not advanced
new_line_ceil(m) ==
    LET c0 == m.char_numbers
        c1 == overflow_guard(c0)
        c2 == IF c1 % BUFFER_WIDTH = 0 THEN c1
              ELSE Wrap(Wrap(c1 + BUFFER_WIDTH) - (c1 % BUFFER_WIDTH))
        m1 == [m EXCEPT !.char_numbers = c2, !.guard = @ \/ guard_fires(c0)]
    IN IF needs_scroll(c2) THEN scroll(m1) ELSE m1

new_line(m) ==
    LET c0 == m.char_numbers
        c1 == overflow_guard(c0)
        sum == c1 + BUFFER_WIDTH
        dif == Wrap(sum) - (c1 % BUFFER_WIDTH)
        c2 == Wrap(dif)
        m1 == [m EXCEPT !.char_numbers = c2,
                        !.guard = @ \/ guard_fires(c0),
                        !.wrapped = @ \/ Overflows(sum) \/ Overflows(dif)]
    IN IF needs_scroll(c2) THEN scroll(m1) ELSE m1

\* variant: the row is derived with BUFFER_HEIGHT
cell_row_by_height(cn) == cn \div BUFFER_HEIGHT

\* let mut row = self.char_numbers / BUFFER_WIDTH
cell_row(cn) == cn \div BUFFER_WIDTH

\* let col = self.char_numbers % BUFFER_WIDTH
cell_col(cn) == cn % BUFFER_WIDTH

\* if row >= (BUFFER_HEIGHT - 1)
on_last_row(row) == row >= BUFFER_HEIGHT - 1

\* variant: every column of the last row counts as its last column
at_last_col_any(col) == col >= 0

\* if col >= BUFFER_WIDTH - 1
at_last_col(col) == col >= BUFFER_WIDTH - 1

\* variant: the clamp is off by one
last_row_off == BUFFER_HEIGHT

\* row = BUFFER_HEIGHT - 1
last_row == BUFFER_HEIGHT - 1

\* variant: the byte that wraps the last row is stored on the last row
row_above_last_off == BUFFER_HEIGHT - 1

\* row = BUFFER_HEIGHT - 2
row_above_last == BUFFER_HEIGHT - 2

\* variant: the round-up of new_line is not compensated
back_none(cn) == cn

\* self.char_numbers -= 1
back_one(cn) == cn - 1

write_byte(m, byte) ==
    IF byte = NEWLINE THEN [new_line(m) EXCEPT !.calls = Append(@, byte)]
    ELSE
        LET row0 == cell_row(m.char_numbers)
            col == cell_col(m.char_numbers)
            wraps == on_last_row(row0) /\ at_last_col(col)
            row == IF on_last_row(row0)
                   THEN IF at_last_col(col) THEN row_above_last ELSE last_row
                   ELSE row0
            m1 == IF wraps
                  THEN LET n == new_line(m)
                       IN [n EXCEPT !.char_numbers = Wrap(back_one(n.char_numbers)),
                                    !.wrapped = @ \/ Overflows(back_one(n.char_numbers))]
                  ELSE m
            m2 == WriteCell([m1 EXCEPT !.old = ReadCell(m1, row, col)],
                            row, col, ScreenChar(byte, m1.color_code))
        IN [m2 EXCEPT !.char_numbers = Wrap(m2.char_numbers + 1),
                      !.wrapped = @ \/ Overflows(m2.char_numbers + 1),
                      !.row = row, !.col = col,
                      !.calls = Append(@, byte)]

\* variant: the printable range includes 0x7F
string_byte_to_del(byte) ==
    IF (byte >= ASCII_LO /\ byte <= ASCII_HI + 1) \/ byte = NEWLINE
    THEN byte ELSE PLACEHOLDER

\* the byte write_string passes to write_byte for an input byte
string_byte(byte) ==
    IF (byte >= ASCII_LO /\ byte <= ASCII_HI) \/ byte = NEWLINE
    THEN byte ELSE PLACEHOLDER

RECURSIVE write_string(_, _)
write_string(m, s) ==
    IF s = <<>> THEN m
    ELSE write_string(write_byte(m, string_byte(Head(s))), Tail(s))

(***************************************************************************)
(* State after construction (lazy_static WRITER): cursor 0, green on       *)
(* black.  Construction does not write the grid; it is taken blank, the    *)
(* empty screen the Writer starts from.                                    *)
(***************************************************************************)
InitColor == ColorCode_new(Green, Black)

Blank == ScreenChar(SPACE, InitColor)

Min(a, b) == IF a < b THEN a ELSE b

InitWriter ==
    /\ char_numbers = 0
    /\ color_code = InitColor
    /\ buffer = [r \in BufferRows |-> [c \in BufferCols |-> Blank]]
    /\ last = [op |-> "new", byte |-> NoIndex, before |-> 0, input |-> <<>>,
               fx |-> Machine(0, InitColor, <<>>)]
    /\ nscrolls = 0
    /\ fed = <<>>

\* the Writer after one operation, and the record of that operation
Apply(m, opname, byte, input) ==
    /\ char_numbers' = m.char_numbers
    /\ color_code' = m.color_code
    /\ buffer' = m.buffer
    /\ last' = [op |-> opname, byte |-> byte, before |-> char_numbers,
                input |-> input, fx |-> [m EXCEPT !.buffer = <<>>]]
    /\ nscrolls' = Min(nscrolls + m.scrolls, MaxCount)

Current == Machine(char_numbers, color_code, buffer)

(***************************************************************************)
(* Spec: any sequence of write_byte calls with a newline or a printable    *)
(* byte.                                                                   *)
(***************************************************************************)
Bytes == {NEWLINE, 97}

WriteByte(b) ==
    /\ Apply(write_byte(Current, b), "write_byte", b, <<b>>)
    /\ UNCHANGED fed
    /\ UNCHANGED cpu_vars

Flows == {"main", "irq"}

\* before the first print: the lock is free, the kernel's main flow runs with
\* interrupts enabled, the interrupt handler is not running
InitCpu ==
    /\ locked = "none"
    /\ interrupts = TRUE
    /\ running = "main"
    /\ flow = [f \in Flows |-> [pc |-> "idle", saved |-> FALSE, piece |-> 0,
                                 panicking |-> FALSE]]
    /\ nprints = 0

Init == InitWriter /\ InitCpu

Next == \E b \in Bytes : WriteByte(b)

Spec == Init /\ [][Next]_vars

(***************************************************************************)
(* SpecString: at most MaxCalls calls of write_string, each with one of a  *)
(* few strings: whole rows, a partial row of distinct bytes, single bytes, *)
(* short lines, and bytes at and around the edges of the printable range.  *)
(***************************************************************************)
RowOf(byte) == [i \in 1 .. BUFFER_WIDTH |-> byte]

Ascending == [i \in 1 .. (BUFFER_WIDTH - 1) |-> 98 + i]

Strings ==
    { RowOf(97), RowOf(98), Ascending, <<120>>, <<NEWLINE>>, <<121, NEWLINE>>,
      <<31, 126, 127>>, <<32, 0, 255>> }

WriteString(s) ==
    /\ Len(fed) < MaxCalls
    /\ Apply(write_string(Current, s), "write_string", NoIndex, s)
    /\ fed' = Append(fed, s)
    /\ UNCHANGED cpu_vars

NextString == \E s \in Strings : WriteString(s)

SpecString == Init /\ [][NextString]_vars

(***************************************************************************)
(* SpecPrint: _print called by the kernel's main flow and by one interrupt *)
(* handler that preempts it.  _print runs its closure under                *)
(* without_interrupts: the interrupt flag is saved and cleared, WRITER is  *)
(* locked (a spin lock: the flow retries until it is free), write_fmt      *)
(* passes the pieces of the formatted text to write_str, the result is     *)
(* unwrapped, the guard is dropped and the flag restored.  An interrupt    *)
(* arrives only while the flag is set; the handler runs with the flag      *)
(* clear and the interrupted flow resumes when it returns.  A panic calls  *)
(* the panic handler of main.rs on the stack of the panicking flow:        *)
(* nothing is unwound, the handler prints and halts.                       *)
(***************************************************************************)
\* the text a flow prints with println!, before the newline
PrintText(f) == IF f = "main" THEN <<120>> ELSE <<121>>

\* println!("{}\n", ..): write_fmt passes the text, then the newline
println_pieces(text) == <<text, <<NEWLINE>>>>

Pieces(f) == println_pieces(PrintText(f))

\* variant: write_str reports an error for input outside the printable range
write_str_strict(m, s) ==
    [writer |-> write_string(m, s),
     result |-> IF \E i \in 1 .. Len(s) : string_byte(s[i]) # s[i]
                THEN "Err" ELSE "Ok"]

\* fmt::Write::write_str: write_string(s), then Ok(())
write_str(m, s) == [writer |-> write_string(m, s), result |-> "Ok"]

\* variant: the closure runs without clearing the interrupt flag
disable_never(saved, enabled) == enabled

\* without_interrupts before the closure: clear the flag if it was set
disable(saved, enabled) == IF saved THEN FALSE ELSE enabled

\* without_interrupts after the closure: set the flag again if it was set
enable(saved, enabled) == IF saved THEN TRUE ELSE enabled

At(f, pc) == running = f /\ flow[f].pc = pc

WriterKept ==
    UNCHANGED <<char_numbers, color_code, buffer, last, nscrolls, fed>>

\* the main flow calls print!/println!
Call ==
    /\ At("main", "idle")
    /\ ~flow["main"].panicking
    /\ nprints < MaxPrints
    /\ flow' = [flow EXCEPT !["main"].pc = "without_interrupts"]
    /\ nprints' = nprints + 1
    /\ UNCHANGED <<locked, interrupts, running>>
    /\ WriterKept

\* an interrupt arrives: the handler preempts the main flow wherever it is,
\* runs with the flag clear and calls println!
Interrupt ==
    /\ running = "main"
    /\ interrupts
    /\ nprints < MaxPrints
    /\ running' = "irq"
    /\ interrupts' = FALSE
    /\ flow' = [flow EXCEPT !["irq"].pc = "without_interrupts"]
    /\ nprints' = nprints + 1
    /\ UNCHANGED locked
    /\ WriterKept

\* without_interrupts: let saved_intpt_flag = are_enabled()
SaveFlag(f) ==
    /\ At(f, "without_interrupts")
    /\ flow' = [flow EXCEPT ![f].saved = interrupts, ![f].pc = "disable"]
    /\ UNCHANGED <<locked, interrupts, running, nprints>>
    /\ WriterKept

\* without_interrupts: if saved_intpt_flag { disable() }
Disable(f) ==
    /\ At(f, "disable")
    /\ interrupts' = disable(flow[f].saved, interrupts)
    /\ flow' = [flow EXCEPT ![f].pc = "lock"]
    /\ UNCHANGED <<locked, running, nprints>>
    /\ WriterKept

\* WRITER.lock(): taken when free; a flow that finds it held keeps spinning
Lock(f) ==
    /\ At(f, "lock")
    /\ locked = "none"
    /\ locked' = f
    /\ flow' = [flow EXCEPT ![f].pc = "write_fmt", ![f].piece = 1]
    /\ UNCHANGED <<interrupts, running, nprints>>
    /\ WriterKept

\* write_fmt(args): one write_str per piece; .unwrap() panics on an Err
WriteFmt(f) ==
    /\ At(f, "write_fmt")
    /\ LET s == Pieces(f)[flow[f].piece]
           r == write_str(Current, s)
       IN /\ Apply(r.writer, "write_str", NoIndex, s)
          /\ fed' = Append(fed, s)
          /\ flow' = [flow EXCEPT
                        ![f].pc = IF r.result = "Err" THEN "unwrap_err"
                                  ELSE IF flow[f].piece = Len(Pieces(f)) THEN "unlock"
                                  ELSE "write_fmt",
                        ![f].piece = @ + 1]
    /\ UNCHANGED <<locked, interrupts, running, nprints>>

\* the MutexGuard is dropped at the end of the statement
Unlock(f) ==
    /\ At(f, "unlock")
    /\ locked' = "none"
    /\ flow' = [flow EXCEPT ![f].pc = "enable"]
    /\ UNCHANGED <<interrupts, running, nprints>>
    /\ WriterKept

\* without_interrupts: if saved_intpt_flag { enable() }; _print returns: to
\* the caller, to the interrupt handler's end, or to panic's hlt_loop
Enable(f) ==
    /\ At(f, "enable")
    /\ interrupts' = enable(flow[f].saved, interrupts)
    /\ flow' = [flow EXCEPT ![f].pc = IF flow[f].panicking THEN "hlt_loop"
                                      ELSE IF f = "irq" THEN "iret" ELSE "idle"]
    /\ UNCHANGED <<locked, running, nprints>>
    /\ WriterKept

\* the handler returns: the interrupted flow resumes with its flag, which
\* was set when the interrupt arrived
Iret ==
    /\ At("irq", "iret")
    /\ running' = "main"
    /\ interrupts' = TRUE
    /\ flow' = [flow EXCEPT !["irq"].pc = "idle"]
    /\ UNCHANGED <<locked, nprints>>
    /\ WriterKept

\* a panic: in the main flow outside a print, while an argument is
\* formatted inside write_fmt, or from unwrap on an Err.  The panic handler
\* runs println! in the same flow; the MutexGuard of a print in progress is
\* not dropped.
Panic(f) ==
    /\ running = f
    /\ ~flow[f].panicking
    /\ \/ f = "main" /\ flow[f].pc = "idle"
       \/ flow[f].pc \in {"write_fmt", "unwrap_err"}
    /\ flow' = [flow EXCEPT ![f].pc = "without_interrupts", ![f].panicking = TRUE]
    /\ UNCHANGED <<locked, interrupts, running, nprints>>
    /\ WriterKept

NextPrint ==
    \/ Call
    \/ Interrupt
    \/ Iret
    \/ \E f \in Flows :
          \/ SaveFlag(f)
          \/ Disable(f)
          \/ Lock(f)
          \/ WriteFmt(f)
          \/ Unlock(f)
          \/ Enable(f)
          \/ Panic(f)

SpecPrint == Init /\ [][NextPrint]_vars

(***************************************************************************)
(* SpecTest: println! called any number of times by one flow with          *)
(* interrupts away, as in test_print_many_characters.  Each call is one    *)
(* whole _print: the lock is free before and after, write_fmt passes the   *)
(* text and then the newline to write_str and the result is unwrapped.     *)
(* The texts are empty, one printable byte, one byte outside the printable *)
(* range, the two bytes at its upper edge, and a text one byte longer than *)
(* a row.                                                                  *)
(***************************************************************************)
\* write_fmt(args): write_str for each piece in order, stopping at an Err
RECURSIVE write_fmt(_, _)
write_fmt(m, pieces) ==
    IF pieces = <<>> THEN [writer |-> m, result |-> "Ok"]
    ELSE LET r == write_str(m, Head(pieces))
         IN IF r.result = "Err" THEN r ELSE write_fmt(r.writer, Tail(pieces))

\* .unwrap(): a panic on Err
unwrap(r) ==
    IF r.result = "Ok" THEN r.writer ELSE [r.writer EXCEPT !.panicked = TRUE]

PrintlnTexts == {<<>>, <<97>>, <<0>>, <<126, 127>>, RowOf(97) \o <<97>>}

Println(text) ==
    /\ locked = "none"
    /\ Apply(unwrap(write_fmt(Current, println_pieces(text))),
             "println", NoIndex, text \o <<NEWLINE>>)
    /\ UNCHANGED fed
    /\ UNCHANGED cpu_vars

NextTest == \E text \in PrintlnTexts : Println(text)

SpecTest == Init /\ [][NextTest]_vars

(***************************************************************************)
(* SpecClear: clear_row applied to any row of the screen, in any state a   *)
(* sequence of println! calls and earlier clear_row calls leaves.  The     *)
(* operation records the row and the glyphs the row held.                  *)
(***************************************************************************)
RowGlyphs(r) == [i \in 1 .. BUFFER_WIDTH |-> buffer[r][i - 1].ascii_character]

ClearRow(r) ==
    /\ Apply(clear_row(Current, r), "clear_row", r, RowGlyphs(r))
    /\ UNCHANGED fed
    /\ UNCHANGED cpu_vars

NextClear ==
    \/ \E text \in PrintlnTexts : Println(text)
    \/ \E r \in 0 .. (BUFFER_HEIGHT - 1) : ClearRow(r)

SpecClear == Init /\ [][NextClear]_vars

(***************************************************************************)
(* Shorthands of the properties below.                                     *)
(***************************************************************************)
IsByteWrite == last.op = "write_byte" /\ last.byte # NEWLINE

IsNewline == last.op = "write_byte" /\ last.byte = NEWLINE

ScreenRows == 0 .. (BUFFER_HEIGHT - 1)

ScreenCols == 0 .. (BUFFER_WIDTH - 1)

Glyph(r, c) == buffer[r][c].ascii_character

\* the bytes of all the strings passed so far, in order
RECURSIVE Flat(_)
Flat(ss) == IF ss = <<>> THEN <<>> ELSE Head(ss) \o Flat(Tail(ss))

Printable(byte) == byte >= 32 /\ byte <= 126

(***************************************************************************)
(* C1: every cell read or written by an operation has a row index below    *)
(* BUFFER_HEIGHT and a column index below BUFFER_WIDTH (and none is        *)
(* outside the array), however large char_numbers / BUFFER_WIDTH is.       *)
(***************************************************************************)
C1_AccessInGrid ==
    /\ last.fx.rows \subseteq ScreenRows
    /\ last.fx.cols \subseteq ScreenCols
    /\ ~last.fx.panicked

\* a byte stored while the raw quotient is past the last row
C1_Witness ==
    /\ IsByteWrite
    /\ last.before \div BUFFER_WIDTH >= BUFFER_HEIGHT
    /\ last.fx.row = BUFFER_HEIGHT - 1

(***************************************************************************)
(* C2: while no scroll has occurred since construction, a non-newline byte *)
(* written at cursor c is stored at (c / BUFFER_WIDTH, c % BUFFER_WIDTH),  *)
(* in a cell no earlier byte was stored in, and leaves the cursor at       *)
(* c + 1; n < BUFFER_WIDTH bytes written from cursor 0 fill cells          *)
(* (0,0)..(0,n-1) and leave the cursor at n.                               *)
(***************************************************************************)
C2_NoOverlap ==
    /\ (IsByteWrite /\ nscrolls = 0) =>
          /\ last.fx.row = last.before \div BUFFER_WIDTH
          /\ last.fx.col = last.before % BUFFER_WIDTH
          /\ last.fx.old = Blank
          /\ buffer[last.fx.row][last.fx.col] = ScreenChar(last.byte, color_code)
          /\ char_numbers = last.before + 1
    /\ (char_numbers < BUFFER_WIDTH) =>
          \A c \in ScreenCols :
              buffer[0][c] = IF c < char_numbers THEN ScreenChar(97, color_code)
                             ELSE Blank

\* a byte stored on the last row before any scroll
C2_Witness ==
    /\ IsByteWrite
    /\ nscrolls = 0
    /\ last.before = BUFFER_WIDTH * BUFFER_HEIGHT - 2

(***************************************************************************)
(* C3: a step in which new_line scrolls leaves every row i < HEIGHT-1      *)
(* equal to the row i+1 of before, and the last row blank in the current   *)
(* style.  (When the scroll is the one a byte at the last cell of the last *)
(* row starts, that byte is then stored at (HEIGHT-2, WIDTH-1).)           *)
(***************************************************************************)
C3_ScrollShifts ==
    [][ (last'.op = "write_byte" /\ last'.fx.scrolls = 1) =>
          /\ \A i \in 0 .. (BUFFER_HEIGHT - 2) : \A c \in ScreenCols :
                \/ buffer'[i][c] = buffer[i + 1][c]
                \/ /\ last'.byte # NEWLINE
                   /\ i = BUFFER_HEIGHT - 2
                   /\ c = BUFFER_WIDTH - 1
                   /\ buffer'[i][c] = ScreenChar(last'.byte, color_code')
          /\ \A c \in ScreenCols :
                buffer'[BUFFER_HEIGHT - 1][c] = ScreenChar(SPACE, color_code')
      ]_vars

\* a newline has scrolled text up: the top row holds a glyph, the row
\* below it does not
C3_Witness ==
    /\ IsNewline
    /\ last.fx.scrolls = 1
    /\ Glyph(0, 0) = 97
    /\ Glyph(1, 0) = SPACE

(***************************************************************************)
(* C4: a newline issued with the cursor within one page of usize::MAX      *)
(* neither wraps nor panics, and the cursor it leaves is the cursor        *)
(* unbounded arithmetic gives, reduced modulo the page: the same derived   *)
(* row and the same derived column.                                        *)
(***************************************************************************)
Unbounded(cn) == cn + BUFFER_WIDTH - (cn % BUFFER_WIDTH)

C4_GuardCongruent ==
    (IsNewline /\ last.before >= usize_MAX - PAGE) =>
        /\ ~last.fx.wrapped
        /\ ~last.fx.panicked
        /\ char_numbers = Unbounded(last.before) % PAGE
        /\ char_numbers \div BUFFER_WIDTH
             = (Unbounded(last.before) % PAGE) \div BUFFER_WIDTH
        /\ char_numbers % BUFFER_WIDTH
             = (Unbounded(last.before) % PAGE) % BUFFER_WIDTH

C4_Witness ==
    /\ IsNewline
    /\ last.before >= usize_MAX - PAGE
    /\ last.fx.guard

(***************************************************************************)
(* C5: no step of the cursor arithmetic leaves the range of usize:         *)
(* char_numbers + 1, char_numbers + BUFFER_WIDTH, the subtraction of the   *)
(* column and char_numbers - 1 all stay within 0 .. usize::MAX.            *)
(***************************************************************************)
C5_NoWrap ==
    /\ ~last.fx.wrapped
    /\ char_numbers >= 0
    /\ char_numbers <= usize_MAX

\* a run of non-newline bytes has carried the cursor into the last page
\* before usize::MAX and the guard fired inside a byte write
C5_Witness ==
    /\ IsByteWrite
    /\ last.fx.guard
    /\ last.before >= usize_MAX - PAGE

(***************************************************************************)
(* C6: after BUFFER_WIDTH * BUFFER_HEIGHT printable bytes and one more,    *)
(* written from the initial state, exactly one scroll has occurred, the    *)
(* grid holds the bytes written after the first BUFFER_WIDTH ones (the     *)
(* first row written is gone), and the last byte is at column 0 of the     *)
(* last row, whose other cells are blank.                                  *)
(***************************************************************************)
FilledPlusOne ==
    /\ Len(Flat(fed)) = PAGE + 1
    /\ \A i \in 1 .. Len(Flat(fed)) : Printable(Flat(fed)[i])

C6_FillThenOne ==
    FilledPlusOne =>
        /\ nscrolls = 1
        /\ \A r \in 0 .. (BUFFER_HEIGHT - 2) : \A c \in ScreenCols :
              buffer[r][c] = ScreenChar(Flat(fed)[(r + 1) * BUFFER_WIDTH + c + 1],
                                        color_code)
        /\ buffer[BUFFER_HEIGHT - 1][0] = ScreenChar(Flat(fed)[PAGE + 1], color_code)
        /\ \A c \in 1 .. (BUFFER_WIDTH - 1) :
              buffer[BUFFER_HEIGHT - 1][c] = ScreenChar(SPACE, color_code)

\* the first row written differs from every later byte
C6_Witness ==
    /\ FilledPlusOne
    /\ \A i \in 1 .. (PAGE + 1) : (Flat(fed)[i] = 97) <=> (i <= BUFFER_WIDTH)

(***************************************************************************)
(* C7: a newline issued with the cursor at the last column of the last row *)
(* scrolls exactly once and leaves the cursor at column 0 of the last row. *)
(***************************************************************************)
C7_NewlineAtLastCell ==
    (/\ IsNewline
     /\ last.before % BUFFER_WIDTH = BUFFER_WIDTH - 1
     /\ last.before \div BUFFER_WIDTH >= BUFFER_HEIGHT - 1) =>
        /\ last.fx.scrolls = 1
        /\ char_numbers % BUFFER_WIDTH = 0
        /\ char_numbers \div BUFFER_WIDTH >= BUFFER_HEIGHT - 1

(***************************************************************************)
(* C8 as claimed: no byte write scrolls while the byte's own position      *)
(* (cursor / BUFFER_WIDTH, cursor % BUFFER_WIDTH) is inside the grid.      *)
(***************************************************************************)
C8_NoScrollInsideGrid ==
    (IsByteWrite /\ last.before \div BUFFER_WIDTH <= BUFFER_HEIGHT - 1) =>
        last.fx.scrolls = 0

(***************************************************************************)
(* C8 as amended: a byte write scrolls only with the cursor at the last    *)
(* column and cursor / BUFFER_WIDTH >= BUFFER_HEIGHT - 1; at every other   *)
(* position inside the grid the byte is stored at its own position         *)
(* without a scroll, so the byte after one stored at the last column of a  *)
(* row r < BUFFER_HEIGHT - 1 is stored at (r + 1, 0).                      *)
(***************************************************************************)
C8_ScrollOnlyAtLastCell ==
    IsByteWrite =>
        /\ last.fx.scrolls >= 1 =>
              /\ last.before % BUFFER_WIDTH = BUFFER_WIDTH - 1
              /\ last.before \div BUFFER_WIDTH >= BUFFER_HEIGHT - 1
        /\ (/\ last.before \div BUFFER_WIDTH <= BUFFER_HEIGHT - 1
            /\ last.before # PAGE - 1) =>
              /\ last.fx.scrolls = 0
              /\ last.fx.row = last.before \div BUFFER_WIDTH
              /\ last.fx.col = last.before % BUFFER_WIDTH
              /\ char_numbers = last.before + 1

\* the second of two bytes written from the last column of row HEIGHT-2:
\* stored at (HEIGHT-1, 0), no scroll so far
C8_Witness ==
    /\ IsByteWrite
    /\ nscrolls = 0
    /\ last.before = (BUFFER_HEIGHT - 1) * BUFFER_WIDTH
    /\ last.fx.row = BUFFER_HEIGHT - 1
    /\ last.fx.col = 0

(***************************************************************************)
(* C9: write_string calls write_byte once per input byte, in order, with   *)
(* the byte itself when it is in 0x20..0x7E or the newline and with 0xFE   *)
(* otherwise; the glyph stored for the last byte of the input is that      *)
(* byte, and no cell ever holds a glyph outside 0x20..0x7E other than      *)
(* 0xFE.                                                                   *)
(***************************************************************************)
Passed(byte) == IF Printable(byte) \/ byte = 10 THEN byte ELSE 254

C9_Placeholder ==
    /\ last.op = "write_string" =>
          /\ Len(last.fx.calls) = Len(last.input)
          /\ \A i \in 1 .. Len(last.input) :
                last.fx.calls[i] = Passed(last.input[i])
          /\ last.input[Len(last.input)] # 10 =>
                Glyph(last.fx.row, last.fx.col) = Passed(last.input[Len(last.input)])
    /\ \A r \in ScreenRows : \A c \in ScreenCols :
          Printable(Glyph(r, c)) \/ Glyph(r, c) = 254

\* a string ending in 0x7F has been written and its last cell holds 0xFE
C9_Witness ==
    /\ last.op = "write_string"
    /\ last.input = <<31, 126, 127>>
    /\ Glyph(last.fx.row, last.fx.col) = 254

(***************************************************************************)
(* C10: the grid shows the most recent BUFFER_HEIGHT logical rows, the     *)
(* cursor's row included, in order: while at most BUFFER_HEIGHT rows have  *)
(* been produced they are all on the grid from row 0 down, and afterwards  *)
(* the grid holds exactly the last BUFFER_HEIGHT of them.  A logical row   *)
(* is started by a newline and by a byte that fills the row before it.     *)
(***************************************************************************)
LogicalByte(rows, byte) ==
    IF byte = 10 THEN Append(rows, <<>>)
    ELSE LET n == Len(rows)
             cur == Append(rows[n], byte)
             put == [rows EXCEPT ![n] = cur]
         IN IF Len(cur) = BUFFER_WIDTH THEN Append(put, <<>>) ELSE put

RECURSIVE Logical(_)
Logical(bytes) ==
    IF bytes = <<>> THEN << <<>> >>
    ELSE LogicalByte(Logical(SubSeq(bytes, 1, Len(bytes) - 1)),
                     Passed(bytes[Len(bytes)]))

Shows(r, line) ==
    \A c \in ScreenCols :
        Glyph(r, c) = IF c < Len(line) THEN line[c + 1] ELSE SPACE

AtLastCell(cn) ==
    cn \div BUFFER_WIDTH >= BUFFER_HEIGHT - 1 /\ cn % BUFFER_WIDTH = BUFFER_WIDTH - 1

\* every cell of the array but (row, col) is the same before and after
OthersKept(row, col) ==
    \A r \in BufferRows, c \in BufferCols :
        (r # row \/ c # col) => buffer'[r][c] = buffer[r][c]

(***************************************************************************)
(* C11 as claimed: write_byte with a non-newline byte changes exactly one  *)
(* cell, the one it stores the glyph in, adds exactly 1 to the cursor and  *)
(* leaves the style and every other cell unchanged, at every cursor.       *)
(***************************************************************************)
C11_OneCellOnly ==
    [][(last'.op = "write_byte" /\ last'.byte # NEWLINE) =>
          /\ char_numbers' = char_numbers + 1
          /\ color_code' = color_code
          /\ buffer'[last'.fx.row][last'.fx.col] = ScreenChar(last'.byte, color_code)
          /\ OthersKept(last'.fx.row, last'.fx.col)]_vars

(***************************************************************************)
(* C11 as amended: write_byte with a non-newline byte never changes the    *)
(* style and stores the glyph in one cell.  Away from the last column of   *)
(* the last row that cell is (min(cursor / WIDTH, HEIGHT-1), cursor %      *)
(* WIDTH), no other cell changes and the cursor grows by exactly 1.  At    *)
(* the last column of the last row new_line runs first: the cell is        *)
(* (HEIGHT-2, WIDTH-1), the cursor ends at the column 0 new_line rounded   *)
(* up to (cursor + 1 when the overflow guard did not fire), and the other  *)
(* cells are unchanged only when new_line did not scroll; when it          *)
(* scrolled, every other cell of rows 0..HEIGHT-2 holds what the cell      *)
(* below it held and the last row is blank.                                *)
(***************************************************************************)
C11_OneCellUnlessWrap ==
    [][(last'.op = "write_byte" /\ last'.byte # NEWLINE) =>
          /\ color_code' = color_code
          /\ buffer'[last'.fx.row][last'.fx.col] = ScreenChar(last'.byte, color_code)
          /\ ~AtLastCell(char_numbers) =>
                /\ last'.fx.row = Min(char_numbers \div BUFFER_WIDTH, BUFFER_HEIGHT - 1)
                /\ last'.fx.col = char_numbers % BUFFER_WIDTH
                /\ char_numbers' = char_numbers + 1
                /\ OthersKept(last'.fx.row, last'.fx.col)
          /\ AtLastCell(char_numbers) =>
                /\ last'.fx.row = BUFFER_HEIGHT - 2
                /\ last'.fx.col = BUFFER_WIDTH - 1
                /\ char_numbers' % BUFFER_WIDTH = 0
                /\ ~last'.fx.guard => char_numbers' = char_numbers + 1
                /\ last'.fx.scrolls \in {0, 1}
                /\ last'.fx.scrolls = 0 => OthersKept(last'.fx.row, last'.fx.col)
                /\ last'.fx.scrolls = 1 =>
                      /\ \A r \in 0 .. (BUFFER_HEIGHT - 2), c \in ScreenCols :
                            (r # last'.fx.row \/ c # last'.fx.col) =>
                                buffer'[r][c] = buffer[r + 1][c]
                      /\ \A c \in ScreenCols :
                            buffer'[BUFFER_HEIGHT - 1][c] = ScreenChar(SPACE, color_code)]_vars

\* a byte written at the last column of the last row: one scroll, the glyph
\* stored one row up
C11_Witness ==
    /\ IsByteWrite
    /\ AtLastCell(last.before)
    /\ last.fx.scrolls = 1
    /\ last.fx.row = BUFFER_HEIGHT - 2
    /\ last.fx.col = BUFFER_WIDTH - 1
    /\ char_numbers = last.before + 1

\* the flow holds the MutexGuard and is between lock() and the guard's drop
InWriter(f) == flow[f].pc \in {"write_fmt", "unlock"}

(***************************************************************************)
(* C12: with the main flow and one interrupt handler both calling _print,  *)
(* interrupts are masked whenever the Writer lock is held (so the lock is  *)
(* released before they are unmasked), the lock is never held by the      *)
(* interrupted flow while the handler runs (the handler never spins on a   *)
(* lock of the code it interrupted), and at most one flow is inside the    *)
(* Writer, the one holding the lock.                                       *)
(***************************************************************************)
C12_HandlerNeverSpins ==
    /\ locked # "none" => ~interrupts
    /\ running = "irq" => locked # "main"
    /\ flow["irq"].pc = "lock" => locked # "main"
    /\ \A f \in Flows : InWriter(f) => locked = f /\ running = f
    /\ ~(InWriter("main") /\ InWriter("irq"))

\* the handler is inside the Writer, having interrupted the main flow inside
\* _print (after it read the flag, before it cleared it) after an earlier
\* print of the main flow
C12_Witness ==
    /\ running = "irq"
    /\ InWriter("irq")
    /\ locked = "irq"
    /\ flow["main"].pc = "disable"
    /\ \E i \in 1 .. Len(fed) : fed[i] = PrintText("main")

(***************************************************************************)
(* C13: the Writer lock is released on every exit path of a print, a panic *)
(* raised while formatting inside the critical section included: no flow   *)
(* that panicked still holds the lock, so the println of the panic handler *)
(* finds the lock free when it arrives at it.                              *)
(***************************************************************************)
C13_PanicReleasesLock ==
    \A f \in Flows :
        /\ flow[f].panicking => locked # f
        /\ (flow[f].panicking /\ flow[f].pc = "lock") => locked = "none"

(***************************************************************************)
(* C14: writing is total: every println completes with one write_byte per  *)
(* input byte (the byte itself, or 0xFE for a byte outside the printable   *)
(* range), without an index outside the array, without usize arithmetic    *)
(* wrapping and without an Err unwrapped, however many calls came before.  *)
(***************************************************************************)
C14_WritingIsTotal ==
    last.op = "println" =>
        /\ ~last.fx.panicked
        /\ ~last.fx.wrapped
        /\ Len(last.fx.calls) = Len(last.input)
        /\ \A i \in 1 .. Len(last.input) :
              last.fx.calls[i] = IF Printable(last.input[i]) \/ last.input[i] = 10
                                 THEN last.input[i] ELSE 254

\* a println of a byte outside the printable range that started past the
\* point where the overflow guard fires, after at least two scrolls
C14_Witness ==
    /\ last.op = "println"
    /\ last.input = <<0, NEWLINE>>
    /\ last.before >= usize_MAX - PAGE
    /\ last.fx.guard
    /\ nscrolls >= 2

(***************************************************************************)
(* C15: clear_row(r) with r < BUFFER_HEIGHT sets every cell of row r to a  *)
(* space with the current style, leaves every other row, the cursor and    *)
(* the style unchanged, and is idempotent: clear_row(r) applied to its own *)
(* result yields the same grid.                                            *)
(***************************************************************************)
C15_ClearRowIdempotent ==
    [][last'.op = "clear_row" =>
          LET r == last'.byte
              once == Machine(char_numbers', color_code', buffer')
          IN /\ r \in ScreenRows
             /\ char_numbers' = char_numbers
             /\ color_code' = color_code
             /\ \A c \in ScreenCols : buffer'[r][c] = ScreenChar(SPACE, color_code)
             /\ \A other \in BufferRows \ {r} : buffer'[other] = buffer[other]
             /\ clear_row(once, r).buffer = buffer'
             /\ clear_row(once, r).char_numbers = char_numbers']_vars

\* a row holding text was cleared while another row holds text and the
\* cursor is past the first row
C15_Witness ==
    /\ last.op = "clear_row"
    /\ \E i \in 1 .. BUFFER_WIDTH : last.input[i] # SPACE
    /\ \A c \in ScreenCols : Glyph(last.byte, c) = SPACE
    /\ \E r \in ScreenRows, c \in ScreenCols : Glyph(r, c) # SPACE
    /\ char_numbers >= BUFFER_WIDTH

(***************************************************************************)
(* C16: when the overflow guard of new_line fires, whether that new_line   *)
(* scrolls and the cell in which the next non-newline byte is stored are   *)
(* the same as for an unbounded cursor that is never reduced: the grid     *)
(* scrolls and the next byte is stored at column 0 of the last row.        *)
(***************************************************************************)
C16_GuardKeepsPosition ==
    (last.op = "write_byte" /\ last.fx.guard) =>
        LET unbounded == IF last.byte = NEWLINE THEN Unbounded(last.before)
                         ELSE last.before + 1
        IN /\ last.fx.scrolls = 1 <=> unbounded \div BUFFER_WIDTH >= BUFFER_HEIGHT - 1
           /\ Min(char_numbers \div BUFFER_WIDTH, BUFFER_HEIGHT - 1) =
                 Min(unbounded \div BUFFER_WIDTH, BUFFER_HEIGHT - 1)
           /\ char_numbers % BUFFER_WIDTH = unbounded % BUFFER_WIDTH

(***************************************************************************)
(* C17: after every call in which new_line scrolled, the cursor is at      *)
(* column 0 and its row, clamped to the grid, is BUFFER_HEIGHT-1; the next *)
(* non-newline byte is stored at (BUFFER_HEIGHT-1, 0) without a scroll,    *)
(* and every byte written with the cursor on the last row before its last  *)
(* column is stored at (BUFFER_HEIGHT-1, column) and moves the cursor one  *)
(* column on, so the bytes that follow go to columns 1, 2, ...             *)
(***************************************************************************)
C17_CursorAfterScroll ==
    [][/\ (last.op = "write_byte" /\ last.fx.scrolls >= 1) =>
             /\ char_numbers % BUFFER_WIDTH = 0
             /\ Min(char_numbers \div BUFFER_WIDTH, BUFFER_HEIGHT - 1) = BUFFER_HEIGHT - 1
             /\ (last'.op = "write_byte" /\ last'.byte # NEWLINE) =>
                   /\ last'.fx.row = BUFFER_HEIGHT - 1
                   /\ last'.fx.col = 0
                   /\ last'.fx.scrolls = 0
                   /\ buffer'[BUFFER_HEIGHT - 1][0] = ScreenChar(last'.byte, color_code)
       /\ (/\ last'.op = "write_byte" /\ last'.byte # NEWLINE
           /\ char_numbers \div BUFFER_WIDTH >= BUFFER_HEIGHT - 1
           /\ char_numbers % BUFFER_WIDTH < BUFFER_WIDTH - 1) =>
             /\ last'.fx.row = BUFFER_HEIGHT - 1
             /\ last'.fx.col = char_numbers % BUFFER_WIDTH
             /\ last'.fx.scrolls = 0
             /\ char_numbers' = char_numbers + 1]_vars

\* the second byte after the first scroll, stored at (BUFFER_HEIGHT-1, 1)
C17_Witness ==
    /\ IsByteWrite
    /\ nscrolls = 1
    /\ last.fx.scrolls = 0
    /\ last.before = (BUFFER_HEIGHT - 1) * BUFFER_WIDTH + 1
    /\ last.fx.row = BUFFER_HEIGHT - 1
    /\ last.fx.col = 1
    /\ Glyph(BUFFER_HEIGHT - 1, 0) = 97

(***************************************************************************)
(* C18: when the overflow guard does not fire, new_line sets the cursor to *)
(* cursor - cursor % BUFFER_WIDTH + BUFFER_WIDTH, the smallest multiple of *)
(* BUFFER_WIDTH strictly greater than the cursor: the cursor lands at      *)
(* column 0, and from column 0 it advances one whole row.  When the new    *)
(* cursor needs no scroll, no cell of the grid changes.                    *)
(***************************************************************************)
C18_RoundUp ==
    [][(last'.op = "write_byte" /\ last'.byte = NEWLINE /\ ~last'.fx.guard) =>
          /\ char_numbers' = char_numbers - (char_numbers % BUFFER_WIDTH) + BUFFER_WIDTH
          /\ char_numbers' % BUFFER_WIDTH = 0
          /\ char_numbers' > char_numbers
          /\ char_numbers' - char_numbers <= BUFFER_WIDTH
          /\ char_numbers % BUFFER_WIDTH = 0 => char_numbers' = char_numbers + BUFFER_WIDTH
          /\ color_code' = color_code
          /\ char_numbers' \div BUFFER_WIDTH < BUFFER_HEIGHT - 1 =>
                /\ last'.fx.scrolls = 0
                /\ buffer' = buffer]_vars

\* a newline in the middle of a row holding text, without a scroll
C18_Witness ==
    /\ IsNewline
    /\ ~last.fx.guard
    /\ last.fx.scrolls = 0
    /\ last.before % BUFFER_WIDTH # 0
    /\ char_numbers = last.before - (last.before % BUFFER_WIDTH) + BUFFER_WIDTH
    /\ Glyph(0, 0) = 97

(***************************************************************************)
(* C19: a byte written with the cursor at the last column of the last row  *)
(* (the last of a run of BUFFER_WIDTH bytes that started at column 0 of    *)
(* that row) scrolls the grid once and is stored at (BUFFER_HEIGHT-2,      *)
(* BUFFER_WIDTH-1): afterwards row BUFFER_HEIGHT-2 holds the whole run,    *)
(* row BUFFER_HEIGHT-1 is blank and the cursor has grown by exactly 1, at  *)
(* column 0 of the last row.                                               *)
(***************************************************************************)
C19_RunStaysContiguous ==
    (IsByteWrite /\ AtLastCell(last.before)) =>
        /\ last.fx.scrolls = 1
        /\ last.fx.row = BUFFER_HEIGHT - 2
        /\ last.fx.col = BUFFER_WIDTH - 1
        /\ \A c \in ScreenCols : Glyph(BUFFER_HEIGHT - 2, c) = last.byte
        /\ \A c \in ScreenCols : buffer[BUFFER_HEIGHT - 1][c] = Blank
        /\ char_numbers = last.before + 1
        /\ char_numbers % BUFFER_WIDTH = 0
        /\ char_numbers \div BUFFER_WIDTH >= BUFFER_HEIGHT - 1

====
